---- MODULE Spec2Model ----
(***************************************************************************)
(* Model of the imgest image loader: the format dispatcher                 *)
(* (load_image_from_reader, src/src/lib.rs), the error taxonomy            *)
(* (src/src/error.rs) and the constrained PNG decoder                      *)
(* (src/src/png_decoder.rs).                                               *)
(*                                                                         *)
(* The png and image crates are collaborators: every call into them is a   *)
(* nondeterministic choice over the values of the call's return type.      *)
(* An Option is a sequence of length 0 (None) or 1 (Some).                 *)
(***************************************************************************)
EXTENDS Integers, Sequences, FiniteSets, TLC

VARIABLES
    stream,     \* the bytes of the reader `reader`
    host,       \* byte order of the platform (NativeEndian)
    entry,      \* which public entry point is running
    pc,         \* position inside the running entry point
    pos,        \* stream position of the reader
    rewinds,    \* number of completed reader.rewind() calls
    sig,        \* the window `buf` of load_image_from_reader
    format,     \* Option: the ImageFormat guess_format returned
    limits,     \* Option: the `limits` argument of PngDecoder::with_limits
    hdr,        \* Option: the info returned by decoder.read_header_info()
    info,       \* Option: reader.info() once decoder.read_info() made the reader
    resolved,   \* Option: reader.output_color_type()
    decoder,    \* Option: the PngDecoder handle
    handed,     \* the decoders that were given the stream, with its state then
    libErr,     \* Option: the error the png crate raised in the last call
    extRet,     \* Option: what the external decoder returned
    written,    \* Option: the frame as the png crate wrote it (big endian)
    buf,        \* Option: the pixel buffer of read_image
    result,     \* Option: the value the entry point returned
    ret,        \* Option: the value the last method of the handle returned
    texts,      \* Option: reader.info().utf8_text, once an accessor looked at it
    latin1      \* Option: the Latin-1 text chunks of reader.info(), likewise

vars == <<stream, host, entry, pc, pos, rewinds, sig, format, limits, hdr, info,
          resolved, decoder, handed, libErr, extRet, written, buf, result, ret, texts,
          latin1>>

-----------------------------------------------------------------------------
(* Bounds of the model *)

MaxPad == 14        \* longest padding after a magic number
MaxDim == 2         \* largest width / height a header declares
MaxLimit == 1       \* largest value of a configured limit
SampleLen == 3      \* period of the byte pattern of a frame
MaxChunks == 2      \* most text chunks of one kind in a PNG

(* Program constants *)

SigLen == 16

-----------------------------------------------------------------------------
(* Values *)

None == << >>
Some(x) == << x >>
IsSome(o) == Len(o) = 1
Unwrap(o) == o[1]

RECURSIVE Pad(_)
Pad(n) == IF n = 0 THEN << >> ELSE << 0 >> \o Pad(n - 1)

(* the magic numbers of image::guess_format, and a sequence that is none *)
PngMagic == << 137, 80, 78, 71, 13, 10, 26, 10 >>
JpegMagic == << 255, 216, 255 >>
GifMagic == << 71, 73, 70, 56, 57, 97 >>
BmpMagic == << 66, 77 >>
NoMagic == << 1, 2, 3 >>

MagicBytes == << << PngMagic, "Png" >>, << JpegMagic, "Jpeg" >>,
                 << GifMagic, "Gif" >>, << BmpMagic, "Bmp" >> >>

StartsWith(b, m) == Len(b) >= Len(m) /\ SubSeq(b, 1, Len(m)) = m

(* a guess_format that falls back to a default format when no magic matches *)
guess_formatDefault(b) ==
    LET hits == { i \in 1..Len(MagicBytes) : StartsWith(b, MagicBytes[i][1]) }
    IN  IF hits = {} THEN Some("Bmp")
        ELSE Some(MagicBytes[CHOOSE i \in hits : \A j \in hits : i <= j][2])

(* image::guess_format: the format of the first magic the buffer starts with *)
guess_format(b) ==
    LET hits == { i \in 1..Len(MagicBytes) : StartsWith(b, MagicBytes[i][1]) }
    IN  IF hits = {} THEN None
        ELSE Some(MagicBytes[CHOOSE i \in hits : \A j \in hits : i <= j][2])

PadLens == { 0, 8, MaxPad }
Streams == { m \o Pad(n) : m \in { PngMagic, JpegMagic, GifMagic, BmpMagic, NoMagic },
                           n \in PadLens }

(* image::Limits *)
OptLimit == { None } \cup { Some(n) : n \in 1..MaxLimit }
LimitsSet == [ max_image_width : OptLimit, max_image_height : OptLimit,
               max_alloc : { None } ]
no_limits == [ max_image_width |-> None, max_image_height |-> None, max_alloc |-> None ]

(* a check_dimensions that forgets the height *)
check_dimensionsWidthOnly(l, w, h) ==
    ~(IsSome(l.max_image_width) /\ w > Unwrap(l.max_image_width))

(* Limits::check_dimensions *)
check_dimensions(l, w, h) ==
    IF IsSome(l.max_image_width) /\ w > Unwrap(l.max_image_width) THEN FALSE
    ELSE IF IsSome(l.max_image_height) /\ h > Unwrap(l.max_image_height) THEN FALSE
    ELSE TRUE

(* png::ColorType, png::BitDepth *)
PngColorTypes == { "Grayscale", "GrayscaleAlpha", "Rgb", "Rgba", "Indexed" }
BitDepths == { "One", "Two", "Four", "Eight", "Sixteen" }
Pairs == PngColorTypes \X BitDepths

(* `bits as u8` *)
as_u8(bits) ==
    CASE bits = "One" -> 1
      [] bits = "Two" -> 2
      [] bits = "Four" -> 4
      [] bits = "Eight" -> 8
      [] bits = "Sixteen" -> 16

(* png::DecodingError, image::ImageError *)
PngErrors == { "IoError", "Format", "Parameter", "LimitsExceeded" }
ImageErrorKinds == { "IoError", "Decoding", "Parameter", "Limits", "Unsupported",
                     "Encoding" }
Payloads == { "e1", "e2" }

FrameBytes == { 18, 52 }

(* error::Error, image::ImageError and the Ok values *)
Err(kind, detail) == [ ok |-> FALSE, ty |-> "Error", kind |-> kind, detail |-> detail ]
ImgErr(kind, detail) ==
    [ ok |-> FALSE, ty |-> "ImageError", kind |-> kind, detail |-> detail ]
Panic == [ ok |-> FALSE, ty |-> "panic", kind |-> "panic", detail |-> None ]
Ok(fmt, img) == [ ok |-> TRUE, format |-> fmt, image |-> img ]
OkUnit == [ ok |-> TRUE ]

-----------------------------------------------------------------------------
(* error.rs *)

(* impl From<std::io::Error> for Error *)
from_io(detail) == Err("IoError", detail)

(* a conversion that wraps every png error, the I/O errors too *)
from_pngAllWrapped(e) == Err("PngDecodingError", << e >>)

(* impl From<png::DecodingError> for Error *)
from_png(e) ==
    IF e = "IoError" THEN Err("IoError", << "png" >>)
    ELSE Err("PngDecodingError", << e >>)

(* impl From<image::ImageError> for Error *)
from_image(e) ==
    CASE e.kind = "IoError" -> Err("IoError", e.detail)
      [] e.kind = "Decoding" -> Err("DecodingError", e.detail)
      [] e.kind = "Parameter" -> Err("Parameter", e.detail)
      [] e.kind = "Limits" -> Err("Limits", e.detail)
      [] e.kind = "Unsupported" -> Err("Unsupported", e.detail)
      [] e.kind = "Encoding" -> Panic

-----------------------------------------------------------------------------
(* png_decoder.rs *)

(* an error_from_png that reports a parameter error as a format error *)
error_from_pngLumped(e) ==
    CASE e = "IoError" -> ImgErr("IoError", << "png" >>)
      [] e = "Format" -> ImgErr("Decoding", << "Png", e >>)
      [] e = "Parameter" -> ImgErr("Decoding", << "Png", e >>)
      [] e = "LimitsExceeded" -> ImgErr("Limits", << "InsufficientMemory" >>)

(* fn error_from_png *)
error_from_png(e) ==
    CASE e = "IoError" -> ImgErr("IoError", << "png" >>)
      [] e = "Format" -> ImgErr("Decoding", << "Png", e >>)
      [] e = "Parameter" -> ImgErr("Parameter", << "Generic", e >>)
      [] e = "LimitsExceeded" -> ImgErr("Limits", << "InsufficientMemory" >>)

(* fn unsupported_color *)
unsupported_color(ect) == Err("Unsupported", << "Png", "Color", ect >>)

(* a table that takes every 16-bit depth for its 8-bit layout *)
ColorTableNarrow(ct, bits) ==
    IF bits \notin { "Eight", "Sixteen" } THEN "none"
    ELSE CASE ct = "Grayscale" -> "L8"
           [] ct = "GrayscaleAlpha" -> "La8"
           [] ct = "Rgb" -> "Rgb8"
           [] ct = "Rgba" -> "Rgba8"
           [] OTHER -> "none"

(* the match of PngDecoder::with_limits, its eight supported arms *)
ColorTable(ct, bits) ==
    CASE ct = "Grayscale" /\ bits = "Eight" -> "L8"
      [] ct = "Grayscale" /\ bits = "Sixteen" -> "L16"
      [] ct = "GrayscaleAlpha" /\ bits = "Eight" -> "La8"
      [] ct = "GrayscaleAlpha" /\ bits = "Sixteen" -> "La16"
      [] ct = "Rgb" /\ bits = "Eight" -> "Rgb8"
      [] ct = "Rgb" /\ bits = "Sixteen" -> "Rgb16"
      [] ct = "Rgba" /\ bits = "Eight" -> "Rgba8"
      [] ct = "Rgba" /\ bits = "Sixteen" -> "Rgba16"
      [] OTHER -> "none"

(* a tagging that drops the bit depth of an indexed PNG *)
UnsupportedTagFlat(ct, bits) ==
    IF ct = "Indexed" THEN << "Unknown", 8 >> ELSE << ct, as_u8(bits) >>

(* the match of PngDecoder::with_limits, the ExtendedColorType of its other arms *)
UnsupportedTag(ct, bits) ==
    CASE ct = "Grayscale" /\ bits = "One" -> << "L1" >>
      [] ct = "GrayscaleAlpha" /\ bits = "One" -> << "La1" >>
      [] ct = "Rgb" /\ bits = "One" -> << "Rgb1" >>
      [] ct = "Rgba" /\ bits = "One" -> << "Rgba1" >>
      [] ct = "Grayscale" /\ bits = "Two" -> << "L2" >>
      [] ct = "GrayscaleAlpha" /\ bits = "Two" -> << "La2" >>
      [] ct = "Rgb" /\ bits = "Two" -> << "Rgb2" >>
      [] ct = "Rgba" /\ bits = "Two" -> << "Rgba2" >>
      [] ct = "Grayscale" /\ bits = "Four" -> << "L4" >>
      [] ct = "GrayscaleAlpha" /\ bits = "Four" -> << "La4" >>
      [] ct = "Rgb" /\ bits = "Four" -> << "Rgb4" >>
      [] ct = "Rgba" /\ bits = "Four" -> << "Rgba4" >>
      [] ct = "Indexed" -> << "Unknown", as_u8(bits) >>

(* the match of PngDecoder::with_limits: the ColorType, or the error returned *)
Classify(ct, bits) ==
    IF ColorTable(ct, bits) # "none"
    THEN [ ok |-> TRUE, color |-> ColorTable(ct, bits) ]
    ELSE unsupported_color(UnsupportedTag(ct, bits))

(* ColorType::bytes_per_pixel, ColorType::channel_count *)
channel_count(c) ==
    CASE c \in { "L8", "L16" } -> 1
      [] c \in { "La8", "La16" } -> 2
      [] c \in { "Rgb8", "Rgb16" } -> 3
      [] c \in { "Rgba8", "Rgba16" } -> 4

bytes_per_pixel(c) ==
    IF c \in { "L16", "La16", "Rgb16", "Rgba16" }
    THEN 2 * channel_count(c) ELSE channel_count(c)

(* ImageDecoder::total_bytes *)
total_bytes(d) == d.info.width * d.info.height * bytes_per_pixel(d.color_type)

(* a write_u16 that keeps the big-endian order on every host *)
NativeEndian_write_u16Big(h, v) == << v \div 256, v % 256 >>

(* byteorder_lite: BigEndian::read_u16, NativeEndian::write_u16 *)
BigEndian_read_u16(c) == c[1] * 256 + c[2]
NativeEndian_write_u16(h, v) ==
    IF h = "little" THEN << v % 256, v \div 256 >> ELSE << v \div 256, v % 256 >>

(* the reordering of read_image: buf.chunks_exact_mut(2).for_each(...) *)
Reorder(h, b) ==
    [ i \in 1..Len(b) |->
        IF i > 2 * (Len(b) \div 2) THEN b[i]
        ELSE LET k == 2 * ((i - 1) \div 2) + 1
                 c == NativeEndian_write_u16(h, BigEndian_read_u16(<< b[k], b[k + 1] >>))
             IN  c[i - k + 1] ]

(* the buffer read_image leaves, from the frame next_frame wrote *)
read_image_buf(h, d, frame) ==
    LET bpc == bytes_per_pixel(d.color_type) \div channel_count(d.color_type)
    IN  IF bpc = 1 THEN frame ELSE Reorder(h, frame)

(* a frame as reader.next_frame writes it: a byte pattern, repeated *)
Frame(n, pat) == [ i \in 1..n |-> pat[((i - 1) % SampleLen) + 1] ]

(* an is_animated that only looks at 8-bit images *)
is_animatedEightOnly(d) == d.info.animated /\ ~d.is_16bit

(* PngDecoder::is_animated *)
is_animated(d) == d.info.animated

-----------------------------------------------------------------------------
(* The state machine *)

Init ==
    /\ stream \in Streams
    /\ host \in { "little", "big" }
    /\ entry = "none"
    /\ pc = "start"
    /\ pos = 0
    /\ rewinds = 0
    /\ sig = << >>
    /\ format = None
    /\ limits = None
    /\ hdr = None
    /\ info = None
    /\ resolved = None
    /\ decoder = None
    /\ handed = << >>
    /\ libErr = None
    /\ extRet = None
    /\ written = None
    /\ buf = None
    /\ result = None
    /\ ret = None
    /\ texts = None
    /\ latin1 = None

Return(r) == result' = Some(r) /\ pc' = "done"

(* a signature read that takes the bytes there are (read instead of read_exact) *)
ReadSignaturePartial ==
    /\ pc = "start"
    /\ entry' = "load"
    /\ \/ /\ Len(stream) - pos < SigLen
          /\ sig' = SubSeq(stream, pos + 1, Len(stream)) \o Pad(SigLen - (Len(stream) - pos))
          /\ pos' = Len(stream)
          /\ pc' = "rewind"
          /\ UNCHANGED result
       \/ /\ Len(stream) - pos >= SigLen
          /\ sig' = SubSeq(stream, pos + 1, pos + SigLen)
          /\ pos' = pos + SigLen
          /\ pc' = "rewind"
          /\ UNCHANGED result
       \/ /\ Return(from_io(<< "read" >>))
          /\ UNCHANGED << sig, pos >>
    /\ UNCHANGED << stream, host, rewinds, format, limits, hdr, info, resolved,
                    decoder, handed, libErr, extRet, written, buf, ret, texts, latin1 >>

(* lib.rs: let mut buf = [0; 16]; reader.read_exact(&mut buf)?; *)
ReadSignature ==
    /\ pc = "start"
    /\ entry' = "load"
    /\ \/ /\ Len(stream) - pos < SigLen
          /\ Return(from_io(<< "UnexpectedEof" >>))
          /\ UNCHANGED << sig, pos >>
       \/ /\ Len(stream) - pos >= SigLen
          /\ sig' = SubSeq(stream, pos + 1, pos + SigLen)
          /\ pos' = pos + SigLen
          /\ pc' = "rewind"
          /\ UNCHANGED result
       \/ /\ Return(from_io(<< "read" >>))
          /\ UNCHANGED << sig, pos >>
    /\ UNCHANGED << stream, host, rewinds, format, limits, hdr, info, resolved,
                    decoder, handed, libErr, extRet, written, buf, ret,
                    texts,
                    latin1 >>

(* a rewind that seeks to the current position *)
RewindInPlace ==
    /\ pc = "rewind"
    /\ \/ /\ rewinds' = rewinds + 1
          /\ pc' = "guess"
          /\ UNCHANGED << pos, result >>
       \/ /\ Return(from_io(<< "seek" >>))
          /\ UNCHANGED << pos, rewinds >>
    /\ UNCHANGED << stream, host, entry, sig, format, limits, hdr, info, resolved,
                    decoder, handed, libErr, extRet, written, buf, ret, texts,
                    latin1 >>

(* lib.rs: reader.rewind()?; *)
Rewind ==
    /\ pc = "rewind"
    /\ \/ /\ pos' = 0
          /\ rewinds' = rewinds + 1
          /\ pc' = "guess"
          /\ UNCHANGED result
       \/ /\ Return(from_io(<< "seek" >>))
          /\ UNCHANGED << pos, rewinds >>
    /\ UNCHANGED << stream, host, entry, sig, format, limits, hdr, info, resolved,
                    decoder, handed, libErr, extRet, written, buf, ret,
                    texts,
                    latin1 >>

(* lib.rs: let Ok(format) = guess_format(&buf) else { return Err(UnsupportedFormat) };
   match format { ... } *)
GuessFormat ==
    /\ pc = "guess"
    /\ LET f == guess_format(sig)
       IN  IF ~IsSome(f)
           THEN /\ Return(Err("UnsupportedFormat", None))
                /\ UNCHANGED format
           ELSE /\ format' = f
                /\ pc' = CASE Unwrap(f) = "Png" -> "png_new"
                            [] Unwrap(f) = "Jpeg" -> "jpeg"
                            [] OTHER -> "image_load"
                /\ UNCHANGED result
    /\ UNCHANGED << stream, host, entry, pos, rewinds, sig, limits, hdr, info,
                    resolved, decoder, handed, libErr, extRet, written, buf, ret,
                    texts,
                    latin1 >>

Hand(to, arg) == [ to |-> to, arg |-> arg, pos |-> pos, rewinds |-> rewinds ]

(* lib.rs: PngDecoder::new(reader)  =  Self::with_limits(r, Limits::no_limits());
   limits.check_support(..) accepts every Limits; the png::Decoder is created *)
PngNew ==
    /\ pc = "png_new"
    /\ limits' = Some(no_limits)
    /\ handed' = Append(handed, Hand("PngDecoder", None))
    /\ pc' = "read_header_info"
    /\ UNCHANGED << stream, host, entry, pos, rewinds, sig, format, hdr, info,
                    resolved, decoder, libErr, extRet, written, buf, result, ret,
                    texts,
                    latin1 >>

(* PngDecoder::with_limits(r, limits), called on a PNG stream at its start *)
WithLimits ==
    /\ pc = "start"
    /\ StartsWith(stream, PngMagic)
    /\ entry' = "with_limits"
    /\ \E l \in LimitsSet : limits' = Some(l)
    /\ handed' = Append(handed, Hand("PngDecoder", None))
    /\ pc' = "read_header_info"
    /\ UNCHANGED << stream, host, pos, rewinds, sig, format, hdr, info,
                    resolved, decoder, libErr, extRet, written, buf, result, ret,
                    texts,
                    latin1 >>

(* let info = decoder.read_header_info()?; *)
ReadHeaderInfo ==
    /\ pc = "read_header_info"
    /\ \/ /\ \E w, h \in 1..MaxDim : hdr' = Some([ width |-> w, height |-> h ])
          /\ pc' = "check_dimensions"
          /\ UNCHANGED << libErr, result >>
       \/ \E e \in PngErrors :
            /\ libErr' = Some([ phase |-> "header", kind |-> e ])
            /\ Return(from_png(e))
            /\ UNCHANGED hdr
    /\ UNCHANGED << stream, host, entry, pos, rewinds, sig, format, limits, info,
                    resolved, decoder, handed, extRet, written, buf, ret,
                    texts,
                    latin1 >>

(* limits.check_dimensions(info.width, info.height)?; *)
CheckDimensions ==
    /\ pc = "check_dimensions"
    /\ IF check_dimensions(Unwrap(limits), Unwrap(hdr).width, Unwrap(hdr).height)
       THEN pc' = "read_info" /\ UNCHANGED result
       ELSE Return(from_image(ImgErr("Limits", << "DimensionError" >>)))
    /\ UNCHANGED << stream, host, entry, pos, rewinds, sig, format, limits, hdr,
                    info, resolved, decoder, handed, libErr, extRet, written, buf,
                    ret,
                    texts,
                    latin1 >>

(* decoder.set_transformations(EXPAND); let reader = decoder.read_info()?; *)
ReadInfo ==
    /\ pc = "read_info"
    /\ \/ /\ \E a \in BOOLEAN :
                info' = Some([ width |-> Unwrap(hdr).width,
                               height |-> Unwrap(hdr).height, animated |-> a ])
          /\ pc' = "classify"
          /\ UNCHANGED << libErr, result >>
       \/ \E e \in PngErrors :
            /\ libErr' = Some([ phase |-> "header", kind |-> e ])
            /\ Return(from_png(e))
            /\ UNCHANGED info
    /\ UNCHANGED << stream, host, entry, pos, rewinds, sig, format, limits, hdr,
                    resolved, decoder, handed, extRet, written, buf, ret,
                    texts,
                    latin1 >>

(* let (color_type, bits) = reader.output_color_type(); match ...; Ok(PngDecoder {..}) *)
ClassifyColor ==
    /\ pc = "classify"
    /\ \E p \in Pairs :
        /\ resolved' = Some(p)
        /\ LET c == Classify(p[1], p[2])
           IN  IF c.ok
               THEN /\ decoder' = Some([ color_type |-> c.color,
                                         is_16bit |-> (p[2] = "Sixteen"),
                                         info |-> Unwrap(info),
                                         limits |-> Unwrap(limits) ])
                    /\ limits' = None
                    /\ IF entry = "load"
                       THEN pc' = "is_animated" /\ UNCHANGED result
                       ELSE pc' = "open" /\ result' = Some(OkUnit)
               ELSE /\ Return(c)
                    /\ UNCHANGED << decoder, limits >>
    /\ UNCHANGED << stream, host, entry, pos, rewinds, sig, format, hdr,
                    info, handed, libErr, extRet, written, buf, ret,
                    texts,
                    latin1 >>

(* lib.rs: if decoder.is_animated() { return Err(Error::Animated); } *)
IsAnimated ==
    /\ pc = "is_animated"
    /\ IF is_animated(Unwrap(decoder))
       THEN Return(Err("Animated", None)) /\ decoder' = None
       ELSE pc' = "from_decoder" /\ UNCHANGED << result, decoder >>
    /\ UNCHANGED << stream, host, entry, pos, rewinds, sig, format, limits, hdr,
                    info, resolved, handed, libErr, extRet, written, buf, ret,
                    texts,
                    latin1 >>

Patterns == [ 1..SampleLen -> FrameBytes ]

(* lib.rs: let img = DynamicImage::from_decoder(decoder)?; return Ok((Png, img));
   from_decoder allocates total_bytes() bytes and calls decoder.read_image(buf):
   self.reader.next_frame(buf).map_err(error_from_png)?; then the reordering *)
FromDecoder ==
    /\ pc = "from_decoder"
    /\ LET d == Unwrap(decoder)
       IN  \/ \E e \in PngErrors :
                /\ libErr' = Some([ phase |-> "read", kind |-> e ])
                /\ Return(from_image(error_from_png(e)))
                /\ buf' = None
                /\ UNCHANGED written
           \/ \E pat \in Patterns :
                LET frame == Frame(total_bytes(d), pat)
                    out == read_image_buf(host, d, frame)
                IN  /\ written' = Some(frame)
                    /\ buf' = Some(out)
                    /\ Return(Ok("Png", [ color |-> d.color_type,
                                          width |-> d.info.width,
                                          height |-> d.info.height,
                                          data |-> out ]))
                    /\ UNCHANGED libErr
    /\ decoder' = None
    /\ texts' = None
    /\ latin1' = None
    /\ UNCHANGED << stream, host, entry, pos, rewinds, sig, format, limits, hdr,
                    info, resolved, handed, extRet, ret >>

(* ImageDecoder::read_image(self, buf), called on an open handle with a buffer of
   total_bytes() bytes *)
ReadImage ==
    /\ pc = "open"
    /\ LET d == Unwrap(decoder)
       IN  \/ \E e \in PngErrors :
                /\ libErr' = Some([ phase |-> "read", kind |-> e ])
                /\ ret' = Some(error_from_png(e))
                /\ buf' = None
                /\ UNCHANGED written
           \/ \E pat \in Patterns :
                LET frame == Frame(total_bytes(d), pat)
                IN  /\ written' = Some(frame)
                    /\ buf' = Some(read_image_buf(host, d, frame))
                    /\ ret' = Some(OkUnit)
                    /\ libErr' = None
    /\ decoder' = None
    /\ texts' = None
    /\ latin1' = None
    /\ pc' = "done"
    /\ UNCHANGED << stream, host, entry, pos, rewinds, sig, format, limits, hdr,
                    info, resolved, handed, extRet, result >>

(* Limits::check_support(&LimitSupport::default()): every Limits is accepted *)
check_support(l) == TRUE

(* a set_limits that stores the new limits before it validates them *)
SetLimitsToStoreFirst(l) ==
    /\ pc = "open"
    /\ LET d == Unwrap(decoder)
       IN  /\ decoder' = Some([ d EXCEPT !.limits = l ])
           /\ IF check_support(l) /\ check_dimensions(l, d.info.width, d.info.height)
              THEN ret' = Some(OkUnit)
              ELSE ret' = Some(ImgErr("Limits", << "DimensionError" >>))
    /\ libErr' = None
    /\ UNCHANGED << stream, host, entry, pc, pos, rewinds, sig, format, limits, hdr,
                    info, resolved, handed, extRet, written, buf, result,
                    texts, latin1 >>

(* ImageDecoder::set_limits(&mut self, limits), for the argument l *)
SetLimitsTo(l) ==
    /\ pc = "open"
    /\ LET d == Unwrap(decoder)
       IN  IF ~check_support(l)
           THEN /\ ret' = Some(ImgErr("Limits", << "Unsupported" >>))
                /\ UNCHANGED decoder
           ELSE IF check_dimensions(l, d.info.width, d.info.height)
           THEN /\ decoder' = Some([ d EXCEPT !.limits = l ])
                /\ ret' = Some(OkUnit)
           ELSE /\ ret' = Some(ImgErr("Limits", << "DimensionError" >>))
                /\ UNCHANGED decoder
    /\ libErr' = None
    /\ UNCHANGED << stream, host, entry, pc, pos, rewinds, sig, format, limits, hdr,
                    info, resolved, handed, extRet, written, buf, result,
                    texts, latin1 >>

(* ImageDecoder::set_limits(&mut self, limits) *)
SetLimits == \E l \in LimitsSet : SetLimitsTo(l)

(* const XMP_KEY; a keyword is a sequence of symbols, str::contains a subsequence test *)
XMP_KEY == << "XML:", "com.adobe.xmp" >>
Contains(s, t) == \E i \in 0..(Len(s) - Len(t)) : SubSeq(s, i + 1, i + Len(t)) = t

(* png::text_metadata::ITXtChunk, as far as the accessor looks at it *)
Keywords == { << "x" >> \o XMP_KEY, << "Comment" >> }
ITXtChunks == { c \in [ keyword : Keywords, inflates : BOOLEAN, text : { "xmp" } ] :
                    Contains(c.keyword, XMP_KEY) \/ c.inflates }
Utf8Lists == UNION { [ 1..n -> ITXtChunks ] : n \in 0..MaxChunks }

(* Iterator::find: the index of the first element that satisfies the test, or 0 *)
FindXmp(l) ==
    LET hits == { i \in 1..Len(l) : Contains(l[i].keyword, XMP_KEY) }
    IN  IF hits = {} THEN 0 ELSE CHOOSE i \in hits : \A j \in hits : i <= j

(* ImageDecoder::xmp_metadata(&mut self) *)
XmpMetadata ==
    /\ pc = "open"
    /\ \E l \in Utf8Lists :
        /\ IsSome(texts) => l = Unwrap(texts)
        /\ texts' = Some(l)
        /\ IF FindXmp(l) = 0
           THEN ret' = Some([ ok |-> TRUE, value |-> None ]) /\ libErr' = None
           ELSE IF l[FindXmp(l)].inflates
           THEN /\ ret' = Some([ ok |-> TRUE, value |-> Some(l[FindXmp(l)].text) ])
                /\ libErr' = None
           ELSE \E e \in PngErrors :
                    /\ libErr' = Some([ phase |-> "metadata", kind |-> e ])
                    /\ ret' = Some(error_from_png(e))
    /\ UNCHANGED << stream, host, entry, pc, pos, rewinds, sig, format, limits, hdr,
                    info, resolved, decoder, handed, extRet, written, buf, result,
                    latin1 >>

(* const IPTC_KEYS *)
IPTC_KEYS == { << "Raw profile type ", "iptc" >>, << "Raw profile type ", "8bim" >> }

(* png::text_metadata::ZTXtChunk and TEXtChunk, as far as the accessor looks at them *)
ZTXtChunks ==
    { [ keyword |-> << "Raw profile type ", "iptc" >>, inflates |-> TRUE, text |-> "z1" ],
      [ keyword |-> << "x", "Raw profile type ", "8bim" >>, inflates |-> FALSE,
        text |-> "z2" ],
      [ keyword |-> << "Raw profile type ", "exif" >>, inflates |-> TRUE, text |-> "z3" ] }
TEXtChunks ==
    { [ keyword |-> << "Raw profile type ", "iptc" >>, text |-> "u1" ],
      [ keyword |-> << "x", "Raw profile type ", "8bim" >>, text |-> "u2" ],
      [ keyword |-> << "Comment" >>, text |-> "u3" ] }

(* reader.info().compressed_latin1_text and .uncompressed_latin1_text of a PNG with
   at most MaxChunks Latin-1 text chunks *)
Latin1Lists ==
    UNION { [ compressed : [ 1..n -> ZTXtChunks ], uncompressed : [ 1..m -> TEXtChunks ] ] :
            n \in 0..MaxChunks, m \in 0..MaxChunks }
Latin1Texts == { t \in Latin1Lists : Len(t.compressed) + Len(t.uncompressed) <= MaxChunks }

(* .iter().find(|chunk| IPTC_KEYS.iter().any(|key| chunk.keyword.contains(key))):
   the index of the first such chunk, or 0 *)
FindIptc(l) ==
    LET hits == { i \in 1..Len(l) : \E key \in IPTC_KEYS : Contains(l[i].keyword, key) }
    IN  IF hits = {} THEN 0 ELSE CHOOSE i \in hits : \A j \in hits : i <= j

(* an iptc_metadata that looks at the uncompressed chunks first *)
iptc_lookupUncompressedFirst(c, u) ==
    IF FindIptc(u) # 0 THEN [ from |-> "uncompressed", chunk |-> u[FindIptc(u)] ]
    ELSE IF FindIptc(c) # 0 THEN [ from |-> "compressed", chunk |-> c[FindIptc(c)] ]
    ELSE [ from |-> "none" ]

(* the two `if let Some(..)` of iptc_metadata: which chunk the accessor takes *)
iptc_lookup(c, u) ==
    IF FindIptc(c) # 0 THEN [ from |-> "compressed", chunk |-> c[FindIptc(c)] ]
    ELSE IF FindIptc(u) # 0 THEN [ from |-> "uncompressed", chunk |-> u[FindIptc(u)] ]
    ELSE [ from |-> "none" ]

(* ImageDecoder::iptc_metadata(&mut self) *)
IptcMetadata ==
    /\ pc = "open"
    /\ \E t \in Latin1Texts :
        /\ IsSome(latin1) => t = Unwrap(latin1)
        /\ latin1' = Some(t)
        /\ LET hit == iptc_lookup(t.compressed, t.uncompressed)
           IN  IF hit.from = "none"
               THEN ret' = Some([ ok |-> TRUE, value |-> None ]) /\ libErr' = None
               ELSE IF hit.from = "uncompressed" \/ hit.chunk.inflates
               THEN /\ ret' = Some([ ok |-> TRUE, value |-> Some(hit.chunk.text) ])
                    /\ libErr' = None
               ELSE \E e \in PngErrors :
                        /\ libErr' = Some([ phase |-> "metadata", kind |-> e ])
                        /\ ret' = Some(error_from_png(e))
    /\ UNCHANGED << stream, host, entry, pc, pos, rewinds, sig, format, limits, hdr,
                    info, resolved, decoder, handed, extRet, written, buf, result,
                    texts >>

Images == { "imgA", "imgB" }
ExtResults == { [ ok |-> TRUE, image |-> i ] : i \in Images }
              \cup { ImgErr(k, << p >>) : k \in ImageErrorKinds, p \in Payloads }

(* a dispatcher arm copied from the JPEG arm, tag included *)
WrapJpegTag(f, r) == IF r.ok THEN Ok("Jpeg", r.image) ELSE from_image(r)

(* what the dispatcher returns for the result r of a decoder of format f *)
Wrap(f, r) == IF r.ok THEN Ok(f, r.image) ELSE from_image(r)

(* lib.rs: ImageFormat::Jpeg => jpeg_decoder::JpegDecoder::new(reader)?;
   DynamicImage::from_decoder(decoder)?; return Ok((ImageFormat::Jpeg, img)) *)
JpegDecode ==
    /\ pc = "jpeg"
    /\ handed' = Append(handed, Hand("JpegDecoder", None))
    /\ \E r \in ExtResults :
        /\ extRet' = Some(r)
        /\ Return(Wrap("Jpeg", r))
    /\ UNCHANGED << stream, host, entry, pos, rewinds, sig, format, limits, hdr,
                    info, resolved, decoder, libErr, written, buf, ret,
                    texts,
                    latin1 >>

(* lib.rs: _ => let img = image::load(reader, format)?; return Ok((format, img)) *)
ImageLoad ==
    /\ pc = "image_load"
    /\ handed' = Append(handed, Hand("image::load", format))
    /\ \E r \in ExtResults :
        /\ extRet' = Some(r)
        /\ Return(Wrap(Unwrap(format), r))
    /\ UNCHANGED << stream, host, entry, pos, rewinds, sig, format, limits, hdr,
                    info, resolved, decoder, libErr, written, buf, ret,
                    texts,
                    latin1 >>

Next ==
    \/ ReadSignature
    \/ Rewind
    \/ GuessFormat
    \/ PngNew
    \/ WithLimits
    \/ ReadHeaderInfo
    \/ CheckDimensions
    \/ ReadInfo
    \/ ClassifyColor
    \/ IsAnimated
    \/ FromDecoder
    \/ ReadImage
    \/ SetLimits
    \/ XmpMetadata
    \/ JpegDecode
    \/ ImageLoad

Spec == Init /\ [][Next]_vars

(* The decoder handle on its own: with_limits on one PNG stream and the methods of
   the handle, the Latin-1 text chunks included *)
InitHandle == Init /\ stream = PngMagic \o Pad(MaxPad)

NextHandle ==
    \/ WithLimits
    \/ ReadHeaderInfo
    \/ CheckDimensions
    \/ ReadInfo
    \/ ClassifyColor
    \/ SetLimits
    \/ IptcMetadata
    \/ ReadImage

SpecHandle == InitHandle /\ [][NextHandle]_vars

TypeOK ==
    /\ pc \in { "start", "rewind", "guess", "png_new", "jpeg", "image_load",
                 "read_header_info", "check_dimensions", "read_info", "classify",
                 "is_animated", "from_decoder", "open", "done" }
    /\ pos \in 0..Len(stream)
    /\ rewinds \in 0..1

-----------------------------------------------------------------------------
(* The claims *)

SupportedPair(p) == p[1] # "Indexed" /\ p[2] \in { "Eight", "Sixteen" }
IsErr(o, kind) == IsSome(o) /\ ~Unwrap(o).ok /\ Unwrap(o).kind = kind
IsColorError(o) ==
    /\ IsErr(o, "Unsupported")
    /\ Unwrap(o).ty = "Error"
    /\ Len(Unwrap(o).detail) = 3
    /\ Unwrap(o).detail[2] = "Color"

(* the value the caller of the last call received *)
Outcome == IF entry = "load" \/ ~IsSome(ret) THEN result ELSE ret

AnimatedInfoRead ==
    entry = "load" /\ pc = "done" /\ IsSome(info) /\ Unwrap(info).animated

LayoutTable ==
    << "Grayscale", "Eight" >> :> "L8" @@ << "Grayscale", "Sixteen" >> :> "L16"
    @@ << "GrayscaleAlpha", "Eight" >> :> "La8"
    @@ << "GrayscaleAlpha", "Sixteen" >> :> "La16"
    @@ << "Rgb", "Eight" >> :> "Rgb8" @@ << "Rgb", "Sixteen" >> :> "Rgb16"
    @@ << "Rgba", "Eight" >> :> "Rgba8" @@ << "Rgba", "Sixteen" >> :> "Rgba16"

(* C2: once with_limits has the resolved pair, a pair of the table yields a decoder
   of exactly the table's layout and no Unsupported error, and every other pair
   yields Unsupported(Color) and no decoder. *)
C2_LayoutTotal ==
    IsSome(resolved) =>
        LET p == Unwrap(resolved)
        IN  IF p \in DOMAIN LayoutTable
            THEN /\ pc \in { "is_animated", "open" } => IsSome(decoder)
                 /\ IsSome(decoder) =>
                        /\ Unwrap(decoder).color_type = LayoutTable[p]
                        /\ Unwrap(decoder).is_16bit = (p[2] = "Sixteen")
                 /\ ~IsErr(result, "Unsupported")
            ELSE /\ decoder = None
                 /\ pc = "done"
                 /\ IsColorError(result)

C2_Witness ==
    /\ resolved = Some(<< "GrayscaleAlpha", "Sixteen" >>)
    /\ IsSome(decoder)
    /\ Unwrap(decoder).color_type = "La16"

(* C3: in load_image_from_reader every decoder receives the stream at offset 0
   after exactly one rewind, and the UnsupportedFormat result is returned with the
   stream rewound once to offset 0. *)
C3_RewoundOnce ==
    entry = "load" =>
        /\ \A i \in 1..Len(handed) : handed[i].pos = 0 /\ handed[i].rewinds = 1
        /\ Len(handed) > 0 => rewinds = 1
        /\ pc \in { "guess", "png_new", "jpeg", "image_load" } =>
                pos = 0 /\ rewinds = 1
        /\ IsErr(result, "UnsupportedFormat") =>
                pos = 0 /\ rewinds = 1 /\ Len(sig) = SigLen

C3_Witness ==
    /\ entry = "load"
    /\ Len(handed) = 1
    /\ handed[1].to = "image::load"
    /\ handed[1].pos = 0

NoKnownSignature(b) == \A i \in 1..Len(MagicBytes) : ~StartsWith(b, MagicBytes[i][1])

(* C4: once the 16-byte window is read and the stream rewound, a window that starts
   with no known magic makes load_image_from_reader fail with UnsupportedFormat,
   and no decoder is given the stream. *)
C4_UnknownSignature ==
    ( /\ entry = "load"
      /\ Len(sig) = SigLen
      /\ rewinds = 1
      /\ pc # "guess"
      /\ NoKnownSignature(sig) )
    => /\ pc = "done"
       /\ result = Some(Err("UnsupportedFormat", None))
       /\ handed = << >>
       /\ decoder = None /\ extRet = None

C4_Witness ==
    /\ entry = "load"
    /\ NoKnownSignature(sig) /\ Len(sig) = SigLen
    /\ result = Some(Err("UnsupportedFormat", None))

(* the kind of the taxonomy that carries an error kind of the general library *)
TaxonomyKind(k) ==
    CASE k = "IoError" -> "IoError"
      [] k = "Decoding" -> "DecodingError"
      [] k = "Parameter" -> "Parameter"
      [] k = "Limits" -> "Limits"
      [] k = "Unsupported" -> "Unsupported"
      [] OTHER -> "none"

DelegatedTo(f) ==
    /\ Len(handed) = 1
    /\ handed[1] = [ to |-> "image::load", arg |-> Some(f), pos |-> 0, rewinds |-> 1 ]
    /\ IsSome(extRet)

(* C5, as stated: for every recognized format other than PNG the stream and the tag
   go to the general-purpose decoder, and its image or its error, wrapped, is what
   load_image_from_reader returns, paired with the tag. *)
C5_AllOthersDelegated ==
    (entry = "load" /\ pc = "done" /\ IsSome(format) /\ Unwrap(format) # "Png") =>
        /\ DelegatedTo(Unwrap(format))
        /\ LET e == Unwrap(extRet)
               r == Unwrap(result)
           IN  IF e.ok THEN r = Ok(Unwrap(format), e.image)
               ELSE ~r.ok /\ r.ty = "Error" /\ r.detail = e.detail

(* C5, amended: for every recognized format other than PNG and JPEG the stream and
   the tag go to the general-purpose decoder; its image is returned paired with
   that tag, its I/O, decoding, parameter, limit and unsupported errors are returned
   as the kind of the same name with their content unchanged, and its encoding
   error aborts the call. JPEG goes to the repository's own JPEG decoder. Every
   image returned, for any format, is paired with the tag classification gave. *)
C5_Delegated ==
    (entry = "load" /\ pc = "done" /\ IsSome(format)) =>
        LET f == Unwrap(format)
            r == Unwrap(result)
        IN  /\ r.ok => r.format = f
            /\ f = "Jpeg" => Len(handed) = 1 /\ handed[1].to = "JpegDecoder"
            /\ f \notin { "Png", "Jpeg" } =>
                /\ DelegatedTo(f)
                /\ LET e == Unwrap(extRet)
                   IN  IF e.ok THEN r = Ok(f, e.image)
                       ELSE IF e.kind = "Encoding" THEN r.ty = "panic"
                       ELSE r = Err(TaxonomyKind(e.kind), e.detail)

C5_Witness ==
    /\ entry = "load" /\ pc = "done"
    /\ format = Some("Gif")
    /\ DelegatedTo("Gif")
    /\ Unwrap(result).ok /\ Unwrap(result).format = "Gif"

(* the dimensions d are within the limits l *)
Within(l, d) ==
    /\ IsSome(l.max_image_width) => d.width <= Unwrap(l.max_image_width)
    /\ IsSome(l.max_image_height) => d.height <= Unwrap(l.max_image_height)

(* C6: a header whose width or height exceeds the limits makes with_limits fail with
   a limit error before the frame reader exists and before any pixel buffer; the
   reader, the buffer and the handle only exist for dimensions within the limits,
   and a handle never holds limits its dimensions violate. *)
C6_LimitsBeforeReader ==
    /\ (IsSome(hdr) /\ IsSome(limits) /\ pc # "check_dimensions"
            /\ ~Within(Unwrap(limits), Unwrap(hdr))) =>
        /\ pc = "done"
        /\ IsErr(result, "Limits")
        /\ info = None /\ decoder = None /\ buf = None /\ written = None
    /\ IsSome(info) =>
        /\ IsSome(hdr)
        /\ IsSome(limits) => Within(Unwrap(limits), Unwrap(hdr))
    /\ (IsSome(buf) \/ IsSome(written)) => IsSome(info)
    /\ IsSome(decoder) => Within(Unwrap(decoder).limits, Unwrap(decoder).info)

C6_Witness ==
    /\ pc = "done"
    /\ IsSome(hdr) /\ IsSome(limits)
    /\ Unwrap(hdr).height > 1 /\ Unwrap(limits).max_image_height = Some(1)
    /\ IsErr(result, "Limits")

(* the 16-bit value a host of byte order h reads from the two bytes at b[k], b[k+1] *)
NativeValue(h, b, k) ==
    IF h = "little" THEN b[k + 1] * 256 + b[k] ELSE b[k] * 256 + b[k + 1]

(* C7: after a successful read_image the buffer is as long as the frame; for a
   16-bit layout every sample, read in the host's byte order, is the value the
   library wrote big-endian; for an 8-bit layout the buffer is the frame. *)
C7_NativeOrder ==
    (IsSome(buf) /\ IsSome(written)) =>
        LET b == Unwrap(buf)
            w == Unwrap(written)
        IN  /\ Len(b) = Len(w)
            /\ IF Unwrap(resolved)[2] = "Sixteen"
               THEN \A n \in 1..(Len(b) \div 2) :
                        NativeValue(host, b, 2 * n - 1) = w[2 * n - 1] * 256 + w[2 * n]
               ELSE b = w

C7_Witness ==
    /\ IsSome(buf) /\ IsSome(written)
    /\ host = "little"
    /\ resolved = Some(<< "Rgb", "Sixteen" >>)
    /\ Unwrap(written)[1] = 18 /\ Unwrap(written)[2] = 52
    /\ NativeValue(host, Unwrap(buf), 1) = 4660

(* the kinds of the specification's taxonomy *)
KindClass(k) ==
    CASE k = "IoError" -> "Io"
      [] k \in { "Decoding", "DecodingError", "PngDecodingError" } -> "Decoding"
      [] k = "Parameter" -> "Parameter"
      [] k \in { "Limits", "TooBig" } -> "Limit"
      [] OTHER -> "other"

LibraryClass(e) ==
    CASE e = "IoError" -> "Io"
      [] e = "Format" -> "Decoding"
      [] e = "Parameter" -> "Parameter"
      [] e = "LimitsExceeded" -> "Limit"

(* C8, as stated: an error of the PNG library reaches the caller as the kind Io,
   Decoding, Parameter or limit that answers to it, the same in every phase. *)
C8_SameKindEveryPhase ==
    IsSome(libErr) =>
        /\ IsSome(Outcome) /\ ~Unwrap(Outcome).ok
        /\ KindClass(Unwrap(Outcome).kind) = LibraryClass(Unwrap(libErr).kind)

(* C8, amended: an error of the PNG library reaches the caller as exactly one kind.
   In the header phase (construction) an I/O error is Io and every other error
   (format, parameter, limits exceeded) is PngDecodingError carrying the library's
   error; in the pixel read and the metadata accessors an I/O error is Io, a format
   error Decoding, a parameter error Parameter and limits exceeded a limit error. *)
C8_Translated ==
    IsSome(libErr) =>
        /\ IsSome(Outcome) /\ ~Unwrap(Outcome).ok
        /\ LET e == Unwrap(libErr).kind
               o == Unwrap(Outcome)
           IN  IF Unwrap(libErr).phase = "header"
               THEN /\ o.ty = "Error"
                    /\ IF e = "IoError" THEN o.kind = "IoError"
                       ELSE o.kind = "PngDecodingError" /\ o.detail = << e >>
               ELSE /\ o.ty = (IF entry = "load" THEN "Error" ELSE "ImageError")
                    /\ KindClass(o.kind) = LibraryClass(e)
                    /\ o.kind # "PngDecodingError"

C8_Witness ==
    /\ IsSome(libErr)
    /\ Unwrap(libErr) = [ phase |-> "header", kind |-> "LimitsExceeded" ]
    /\ IsErr(result, "PngDecodingError")

(* an I/O failure was raised: by the signature read, by the rewind, inside the PNG
   library or inside the other decoder *)
IoRaised ==
    \/ entry = "load" /\ pc = "done" /\ sig = << >>
    \/ entry = "load" /\ pc = "done" /\ sig # << >> /\ rewinds = 0
    \/ IsSome(libErr) /\ Unwrap(libErr).kind = "IoError"
    \/ IsSome(extRet) /\ ~Unwrap(extRet).ok /\ Unwrap(extRet).kind = "IoError"

(* C9: an I/O failure of the stream, wherever it is raised, reaches the caller as
   the Io kind. *)
C9_IoStaysIo ==
    IoRaised => IsErr(Outcome, "IoError")

C9_Witness ==
    /\ entry = "load"
    /\ libErr = Some([ phase |-> "header", kind |-> "IoError" ])
    /\ IsErr(result, "IoError")

(* C10: the tag of an Unsupported(Color) error of the classification belongs to the
   resolved pair alone: no other unsupported pair is classified with that tag. *)
C10_TagNamesPair ==
    (IsSome(resolved) /\ IsColorError(result)) =>
        \A q \in Pairs :
            ( /\ ~Classify(q[1], q[2]).ok
              /\ Classify(q[1], q[2]).detail = Unwrap(result).detail )
            => q = Unwrap(resolved)

C10_Witness ==
    /\ resolved = Some(<< "Indexed", "Sixteen" >>)
    /\ IsColorError(result)
    /\ Unwrap(result).detail[3] = << "Unknown", 16 >>

(* the keyword k holds one of the two IPTC identifiers *)
IptcKeyword(k) ==
    \/ Contains(k, << "Raw profile type ", "iptc" >>)
    \/ Contains(k, << "Raw profile type ", "8bim" >>)

FirstIptc(l) ==
    IF \E i \in 1..Len(l) : IptcKeyword(l[i].keyword)
    THEN Some(CHOOSE i \in 1..Len(l) :
                /\ IptcKeyword(l[i].keyword)
                /\ \A j \in 1..(i - 1) : ~IptcKeyword(l[j].keyword))
    ELSE None

(* what C11 expects iptc_metadata to have returned in the state reached *)
IptcAnswer(c, u, r, le) ==
    IF IsSome(FirstIptc(c))
    THEN LET z == c[Unwrap(FirstIptc(c))]
         IN  IF z.inflates
             THEN r = Some([ ok |-> TRUE, value |-> Some(z.text) ])
             ELSE /\ IsSome(r) /\ ~Unwrap(r).ok /\ Unwrap(r).ty = "ImageError"
                  /\ IsSome(le) /\ Unwrap(le).phase = "metadata"
                  /\ KindClass(Unwrap(r).kind) = LibraryClass(Unwrap(le).kind)
    ELSE IF IsSome(FirstIptc(u))
    THEN r = Some([ ok |-> TRUE, value |-> Some(u[Unwrap(FirstIptc(u))].text) ])
    ELSE r = Some([ ok |-> TRUE, value |-> None ])

(* C11: every call of iptc_metadata returns the text of the first compressed chunk
   whose keyword holds an IPTC identifier; if that chunk does not decompress it
   returns the library's error as a decoding error, whatever the uncompressed
   chunks are; without a compressed match it returns the text of the first
   uncompressed match; it returns None only when neither list has a match. *)
C11_IptcCompressedFirst ==
    [][ IptcMetadata =>
            IptcAnswer(Unwrap(latin1').compressed, Unwrap(latin1').uncompressed,
                       ret', libErr') ]_vars

C11_Witness ==
    /\ pc = "open"
    /\ IsSome(latin1)
    /\ Len(Unwrap(latin1).compressed) = 1
    /\ ~Unwrap(latin1).compressed[1].inflates
    /\ Len(Unwrap(latin1).uncompressed) = 1
    /\ IptcKeyword(Unwrap(latin1).uncompressed[1].keyword)
    /\ IsErr(ret, "Decoding")
    /\ libErr = Some([ phase |-> "metadata", kind |-> "Format" ])

(* C12: set_limits(l) on a handle validates l against the dimensions the handle
   knows. If they violate l it returns a limit error and the handle (stored limits,
   colour layout, reader info) is as before; otherwise the stored limits become l
   and nothing else changes. Either way the stored limits admit the dimensions. *)
C12_SetLimitsRevalidates ==
    [][ \A l \in LimitsSet : SetLimitsTo(l) =>
            LET d == Unwrap(decoder)
            IN  /\ IF Within(l, d.info)
                   THEN /\ ret' = Some(OkUnit)
                        /\ decoder' = Some([ d EXCEPT !.limits = l ])
                   ELSE /\ IsErr(ret', "Limits")
                        /\ decoder' = decoder
                /\ info' = info /\ resolved' = resolved /\ pc' = "open"
                /\ Within(Unwrap(decoder').limits, Unwrap(decoder').info) ]_vars

C12_Witness ==
    /\ pc = "open"
    /\ IsErr(ret, "Limits")
    /\ Unwrap(decoder).info.width > 1
    /\ Unwrap(decoder).limits = no_limits

(* C13: a stream of fewer than 16 bytes makes load_image_from_reader fail with the
   Io kind at the signature read: no rewind, no classification and no decoder
   follow, and the result is never UnsupportedFormat, whatever the bytes are. *)
C13_ShortStreamIo ==
    (entry = "load" /\ Len(stream) < SigLen) =>
        /\ pc = "done"
        /\ IsErr(result, "IoError")
        /\ sig = << >> /\ rewinds = 0 /\ pos = 0
        /\ format = None
        /\ handed = << >> /\ decoder = None /\ extRet = None

C13_Witness ==
    /\ entry = "load"
    /\ stream = PngMagic
    /\ pc = "done"
    /\ IsErr(result, "IoError")

====
